---- MODULE Spec2Model ----
(***************************************************************************)
(* Kenny V4: the session manager (services/kenny_session_manager.py) and   *)
(* the Open WebUI pipeline (services/kenny_pipeline.py) as state machines. *)
(*                                                                         *)
(* Text is a sequence of tokens; the token " " is whitespace, every other  *)
(* token is a run of non-whitespace characters.  A Python dict is a        *)
(* function whose DOMAIN is its key set.  Confidence is in percent.        *)
(***************************************************************************)
EXTENDS Integers, Sequences, FiniteSets, TLC

(* ---------------- program constants ---------------- *)
\* KennySessionManager.session_timeout, seconds
SessionTimeout == 3600
\* Valves.session_timeout, seconds
ValvesSessionTimeout == 3600
\* "Keep only last 10 turns" / "Keep only last 10 exchanges"
RetainCap == 10
\* conversation_history[-5:] sent to the router
HistoryWindow == 5

(* ---------------- bounds of the model ---------------- *)
\* clock advances per behaviour of Spec and PipeSpec
MaxTicks == 2
\* turns a record may have held before add_turn is no longer offered, in Spec
MaxTurns == 2
\* the same two bounds for the specifications with two sessions or two processes
MaxWideTicks == 1
MaxWideTurns == 1
\* add_turn calls per behaviour of AppendSpec
MaxAppends == 12
\* pipeline requests per behaviour of AppendSpec
MaxExchanges == 11
\* pipeline requests per behaviour of PipeSpec and StreamSpec
MaxRequests == 2
\* pipeline requests per behaviour of RelaySpec
MaxRelayRequests == 1
\* coroutines of one process that may be suspended at once, in ConcSpec
MaxTasks == 2
\* turns a record may have held before add_turn is no longer offered, in ConcSpec
MaxConcTurns == 3

\* turn rows the durable store may hold for one conversation, in StoreSpec
MaxTurnRows == 11

Procs == {"p1", "p2"}
TaskIds == 1..MaxTasks
SessionIds == {"s1", "s2"}
UserIds == {"u1", "u2"}
\* seconds the clock may jump by: one second, the idle timeout, one second more than it
TickSteps == {1, SessionTimeout, SessionTimeout + 1}

\* (user_message, kenny_response, intent, confidence) passed to add_turn
TurnInputs ==
  { [user_message |-> <<"hi">>, kenny_response |-> <<"hello">>,
     intent |-> "calendar_query", confidence |-> 92],
    [user_message |-> <<"bye">>, kenny_response |-> <<"ciao">>,
     intent |-> "unknown", confidence |-> 0] }

VARIABLES
  now,                \* time.time()
  redis_conn,         \* per process: self.redis is not None
  sessions,           \* per process: self.sessions, session_id -> ConversationContext
  redis,              \* the network cache: key -> [value, expires_at]
  conversations,      \* durable store: rows of table 'conversations'
  conversation_turns, \* durable store: rows of table 'conversation_turns'
  ret,                \* the last manager call: operation, arguments, tier that answered, value returned
  ticks,              \* clock advances so far
  appended,           \* per process and session: every turn the last in-memory record has held, in order
  tasks,              \* per process: coroutines suspended at an await
  valves,             \* Pipe.valves
  session_cache,      \* Pipe.session_cache, in insertion order
  uuid_next,          \* how many uuid4() values were drawn
  relay,              \* the outbound calls of the current request
  gen,                \* the generator returned by Pipe.pipe
  requests            \* pipeline requests so far

mgr_vars == <<redis_conn, sessions, redis, conversations, conversation_turns, ret, appended, tasks>>
pipe_vars == <<valves, session_cache, uuid_next, relay, gen, requests>>
vars == <<now, ticks, mgr_vars, pipe_vars>>

(* ---------------- dicts and lists ---------------- *)
EmptyDict == <<>>
Put(d, k, v) == [x \in (DOMAIN d) \cup {k} |-> IF x = k THEN v ELSE d[x]]
Del(d, k) == [x \in (DOMAIN d) \ {k} |-> d[x]]
Get(d, k, default) == IF k \in DOMAIN d THEN d[k] ELSE default

\* Python's xs[-n:] for n > 0
LastN(xs, n) ==
  IF Len(xs) <= n THEN xs ELSE SubSeq(xs, Len(xs) - n + 1, Len(xs))

Min(a, b) == IF a <= b THEN a ELSE b

(* ---------------- ConversationContext ---------------- *)
ConversationContext(session_id, user_id, turns, created_at, last_activity, metadata) ==
  [session_id |-> session_id, user_id |-> user_id, turns |-> turns,
   created_at |-> created_at, last_activity |-> last_activity, metadata |-> metadata]

\* json.dumps(asdict(session), default=str): a JSON object, one member per field
JsonDumps(session) ==
  [json |-> << <<"session_id", session.session_id>>, <<"user_id", session.user_id>>,
               <<"turns", session.turns>>, <<"created_at", session.created_at>>,
               <<"last_activity", session.last_activity>>, <<"metadata", session.metadata>> >>]

Member(obj, name) ==
  obj.json[CHOOSE i \in 1..Len(obj.json) : obj.json[i][1] = name][2]

\* a load that takes the moment of the read as the record's last activity
JsonLoadsSessionTouched(cached) ==
  ConversationContext(Member(cached, "session_id"), Member(cached, "user_id"),
                      Member(cached, "turns"), Member(cached, "created_at"),
                      now, Member(cached, "metadata"))

\* ConversationContext(**json.loads(cached))
JsonLoadsSession(cached) ==
  ConversationContext(Member(cached, "session_id"), Member(cached, "user_id"),
                      Member(cached, "turns"), Member(cached, "created_at"),
                      Member(cached, "last_activity"), Member(cached, "metadata"))

RedisKey(session_id) == <<"kenny:session:", session_id>>

\* redis.get(key): the value while its TTL has not elapsed
RedisLive(key) == key \in DOMAIN redis /\ now < redis[key].expires_at

\* redis.setex(key, ttl, value)
RedisSetex(store, key, ttl, value) ==
  Put(store, key, [value |-> value, expires_at |-> now + ttl])

(* ---------------- durable store (supabase) ---------------- *)
\* a select that finds no row
SelectNothing(rows, column, value) == <<>>

\* table(t).select('*').eq(column, value): the rows of a table with row[column] = value, in table order
RECURSIVE SelectEq(_, _, _)
SelectEq(rows, column, value) ==
  IF rows = <<>> THEN <<>>
  ELSE (IF Head(rows)[column] = value THEN <<Head(rows)>> ELSE <<>>)
       \o SelectEq(Tail(rows), column, value)

\* .order('turn_number'): ascending by turn_number, stable
RECURSIVE InsertByTurnNumber(_, _)
InsertByTurnNumber(sorted, row) ==
  IF sorted = <<>> THEN <<row>>
  ELSE IF row.turn_number < Head(sorted).turn_number THEN <<row>> \o sorted
  ELSE <<Head(sorted)>> \o InsertByTurnNumber(Tail(sorted), row)

RECURSIVE OrderByTurnNumber(_)
OrderByTurnNumber(rows) ==
  IF rows = <<>> THEN <<>>
  ELSE InsertByTurnNumber(OrderByTurnNumber(SubSeq(rows, 1, Len(rows) - 1)), rows[Len(rows)])

\* the row inserted for a new conversation; the store assigns the id
ConversationRow(session_id, user_id) ==
  [id |-> Len(conversations) + 1, session_id |-> session_id, user_id |-> user_id,
   created_at |-> now, last_activity |-> now]

(* ---------------- KennySessionManager ---------------- *)
\* a _cache_session that writes nothing
cache_session_skipped(p, session, store) == store

\* _cache_session: the network cache after the call by process p
cache_session(p, session, store) ==
  IF redis_conn[p]
  THEN RedisSetex(store, RedisKey(session.session_id), SessionTimeout, JsonDumps(session))
  ELSE store

\* a hit that rewinds the record to its creation time
MemoryHitRewind(session) == [session EXCEPT !.last_activity = session.created_at]

\* the memory-cache hit of get_or_create_session: refresh last_activity
MemoryHit(session) == [session EXCEPT !.last_activity = now]

\* a record materialized as if the conversation began now
LoadedSessionFresh(session_id, user_id, conv_data, turn_rows) ==
  ConversationContext(session_id, user_id, OrderByTurnNumber(turn_rows), now, now, EmptyDict)

\* the record materialized from an existing conversation row
LoadedSession(session_id, user_id, conv_data, turn_rows) ==
  ConversationContext(session_id, user_id, OrderByTurnNumber(turn_rows),
                      conv_data.created_at, now, Get(conv_data, "metadata", EmptyDict))

\* the record of a brand-new conversation
NewSession(session_id, user_id) ==
  ConversationContext(session_id, user_id, <<>>, now, now, EmptyDict)

\* probes: the tiers a lookup consulted, in the order it consulted them
Returned(op, p, session_id, tier, value) ==
  [op |-> op, proc |-> p, session_id |-> session_id, tier |-> tier, value |-> value,
   probes |-> <<>>]

\* a lookup that consults the durable store first
ProbesSlowestFirst(p, session_id) == <<"supabase", "redis", "memory">>

\* the tiers get_or_create_session consults before it returns
Probes(p, session_id) ==
  <<"memory">>
  \o (IF session_id \in DOMAIN sessions[p] THEN <<>>
      ELSE (IF redis_conn[p] THEN <<"redis">> ELSE <<>>)
           \o (IF redis_conn[p] /\ RedisLive(RedisKey(session_id)) THEN <<>> ELSE <<"supabase">>))

\* what get_or_create_session returns, with the tier that answered
Resolved(p, session_id, tier, session) ==
  [Returned("resolve", p, session_id, tier, <<session>>) EXCEPT !.probes = Probes(p, session_id)]

initialize(p) ==
  /\ redis_conn' = [redis_conn EXCEPT ![p] = TRUE]
  /\ ret' = Returned("initialize", p, "", "none", <<>>)
  /\ UNCHANGED <<now, ticks, sessions, redis, conversations, conversation_turns,
                 appended, tasks, pipe_vars>>

get_or_create_session(p, session_id, user_id) ==
  /\ IF session_id \in DOMAIN sessions[p]
     THEN LET session == MemoryHit(sessions[p][session_id]) IN
          /\ sessions' = [sessions EXCEPT ![p] = Put(@, session_id, session)]
          /\ ret' = Resolved(p, session_id, "memory", session)
          /\ UNCHANGED <<redis, conversations, appended>>
     ELSE IF redis_conn[p] /\ RedisLive(RedisKey(session_id))
     THEN LET session == JsonLoadsSession(redis[RedisKey(session_id)].value) IN
          /\ sessions' = [sessions EXCEPT ![p] = Put(@, session_id, session)]
          /\ appended' = [appended EXCEPT ![p] = Put(@, session_id, session.turns)]
          /\ ret' = Resolved(p, session_id, "redis", session)
          /\ UNCHANGED <<redis, conversations>>
     ELSE LET result == SelectEq(conversations, "session_id", session_id)
              found == result # <<>>
              session ==
                IF found
                THEN LoadedSession(session_id, user_id, result[1],
                                   SelectEq(conversation_turns, "conversation_id", result[1].id))
                ELSE NewSession(session_id, user_id)
          IN
          /\ conversations' =
               IF found THEN conversations
               ELSE Append(conversations, ConversationRow(session_id, user_id))
          /\ sessions' = [sessions EXCEPT ![p] = Put(@, session_id, session)]
          /\ appended' = [appended EXCEPT ![p] = Put(@, session_id, session.turns)]
          /\ redis' = cache_session(p, session, redis)
          /\ ret' = Resolved(p, session_id, IF found THEN "supabase" ELSE "new", session)
  /\ UNCHANGED <<now, ticks, redis_conn, conversation_turns, tasks, pipe_vars>>

\* the rows of table 'conversation_turns' come from outside this code, which only reads
\* them: another writer stores the next turn of a conversation
store_turn_row(session_id) ==
  LET result == SelectEq(conversations, "session_id", session_id)
      stored == SelectEq(conversation_turns, "conversation_id", result[1].id)
  IN
  /\ result # <<>>
  /\ Len(stored) < MaxTurnRows
  /\ conversation_turns' =
       Append(conversation_turns,
              [conversation_id |-> result[1].id, user_message |-> <<"hi">>,
               kenny_response |-> <<"hello">>, intent_classified |-> "calendar_query",
               intent_confidence |-> 92, timestamp |-> now, turn_number |-> Len(stored) + 1])
  /\ UNCHANGED <<now, ticks, redis_conn, sessions, redis, conversations, ret, appended, tasks,
                 pipe_vars>>

\* turn_data of add_turn
TurnData(session, in) ==
  [user_message |-> in.user_message, kenny_response |-> in.kenny_response,
   intent_classified |-> in.intent, intent_confidence |-> in.confidence,
   timestamp |-> now, turn_number |-> Len(session.turns) + 1]

\* "Keep only last 10 turns in memory"
Retain(turns) == IF Len(turns) > RetainCap THEN LastN(turns, RetainCap) ELSE turns

\* the record after the synchronous part of add_turn
WithTurn(session, turn_data) ==
  [session EXCEPT !.turns = Retain(Append(@, turn_data)), !.last_activity = now]

\* an append that creates the record it does not find
add_turn_creating(p, session_id, in) ==
  LET found == Get(sessions[p], session_id, NewSession(session_id, "anonymous"))
      turn_data == TurnData(found, in)
      session == WithTurn(found, turn_data)
  IN
  /\ sessions' = [sessions EXCEPT ![p] = Put(@, session_id, session)]
  /\ appended' = [appended EXCEPT ![p] = Put(@, session_id, Append(Get(@, session_id, <<>>), turn_data))]
  /\ redis' = cache_session(p, session, redis)
  /\ ret' = Returned("add_turn", p, session_id, "memory", <<session>>)
  /\ UNCHANGED <<now, ticks, redis_conn, conversations, conversation_turns, tasks, pipe_vars>>

add_turn(p, session_id, in) ==
  /\ IF session_id \notin DOMAIN sessions[p]
     THEN /\ ret' = Returned("add_turn", p, session_id, "none", <<>>)
          /\ UNCHANGED <<sessions, redis, appended>>
     ELSE LET turn_data == TurnData(sessions[p][session_id], in)
              session == WithTurn(sessions[p][session_id], turn_data)
          IN
          /\ sessions' = [sessions EXCEPT ![p] = Put(@, session_id, session)]
          /\ appended' = [appended EXCEPT ![p] = Put(@, session_id, Append(@[session_id], turn_data))]
          /\ redis' = cache_session(p, session, redis)
          /\ ret' = Returned("add_turn", p, session_id, "memory", <<session>>)
  /\ UNCHANGED <<now, ticks, redis_conn, conversations, conversation_turns, tasks, pipe_vars>>

\* an expiry test that is met at the timeout already
ExpiredAtTimeout(session) == now - session.last_activity >= SessionTimeout

\* the expiry test of cleanup_sessions
Expired(session) == now - session.last_activity > SessionTimeout

\* a removal that removes nothing
DelNothing(d, keys) == d

RECURSIVE DelAll(_, _)
DelAll(d, keys) ==
  IF keys = {} THEN d
  ELSE LET k == CHOOSE x \in keys : TRUE IN DelAll(Del(d, k), keys \ {k})

cleanup_sessions(p) ==
  LET expired == {sid \in DOMAIN sessions[p] : Expired(sessions[p][sid])} IN
  /\ sessions' = [sessions EXCEPT ![p] = DelAll(@, expired)]
  /\ redis' = IF redis_conn[p] THEN DelAll(redis, {RedisKey(sid) : sid \in expired}) ELSE redis
  /\ ret' = Returned("cleanup", p, "", "none", <<>>)
  /\ UNCHANGED <<now, ticks, redis_conn, conversations, conversation_turns, appended, tasks, pipe_vars>>

\* the clock moves
Tick(d, bound) ==
  /\ ticks < bound
  /\ now' = now + d
  /\ ticks' = ticks + 1
  /\ UNCHANGED <<mgr_vars, pipe_vars>>

(* ---------------- text ---------------- *)
IsSpace(t) == t \in {" ", "\n", "\t", "\n\n"}

\* str.split(): the maximal runs of non-whitespace tokens, in order
RECURSIVE SplitFrom(_, _, _)
SplitFrom(text, word, words) ==
  IF text = <<>> THEN (IF word = <<>> THEN words ELSE Append(words, word))
  ELSE IF IsSpace(Head(text))
       THEN SplitFrom(Tail(text), <<>>, IF word = <<>> THEN words ELSE Append(words, word))
       ELSE SplitFrom(Tail(text), Append(word, Head(text)), words)

Split(text) == SplitFrom(text, <<>>, <<>>)

RECURSIVE Concat(_)
Concat(texts) == IF texts = <<>> THEN <<>> ELSE Head(texts) \o Concat(Tail(texts))

(* ---------------- JSON values of a workflow response body ---------------- *)
Str(text) == [t |-> "str", v |-> text]
Num(n) == [t |-> "num", v |-> n]
Bool(b) == [t |-> "bool", v |-> b]
Null == [t |-> "null", v |-> <<>>]

\* Python truthiness of a JSON value
Truthy(x) ==
  CASE x.t = "str" -> x.v # <<>>
    [] x.t = "num" -> x.v # 0
    [] x.t = "bool" -> x.v
    [] OTHER -> FALSE

\* what the workflow may answer with status 200: an unparseable body, JSON that is
\* no object, or an object
OkBody ==
  [response |-> Str(<<"You", " ", "have", " ", "2", " ", "meetings.">>),
   intent |-> Str(<<"calendar_query">>), confidence |-> Num(92)]
PlainBody == [response |-> Str(<<"Done.", "\n", "Next?">>)]
NullResponseBody == [response |-> Null, intent |-> Str(<<"calendar_query">>), confidence |-> Num(92)]
FlaggedBody == [response |-> Str(<<"partial">>), fallback |-> Bool(TRUE)]
\* the JSON body of an error response
ErrorBody == [message |-> Str(<<"upstream-error-page">>), response |-> Str(<<"upstream-error-page">>)]
Objects == {OkBody, PlainBody, EmptyDict, NullResponseBody, FlaggedBody}

\* the outcome of requests.post: a deadline overrun (with what had arrived of the
\* body), a transport error, or a response with its status, text and parsed body
\* parsed: "no" for a body that is not JSON, "array" for JSON that is no object, "object" otherwise
HttpResponse(status, text, parsed, object) ==
  [kind |-> "response", status |-> status, text |-> text, parsed |-> parsed, object |-> object]
HttpTimeout ==
  [kind |-> "timeout", status |-> 0, text |-> <<"upstream-partial">>, parsed |-> "no", object |-> EmptyDict]
HttpConnectionError ==
  [kind |-> "error", status |-> 0, text |-> <<>>, parsed |-> "no", object |-> EmptyDict]
HttpOutcomes ==
  {HttpTimeout, HttpConnectionError,
   HttpResponse(500, <<"upstream-error-page">>, "object", ErrorBody),
   HttpResponse(201, <<"upstream-created">>, "object", OkBody),
   HttpResponse(200, <<"upstream-garbage">>, "no", EmptyDict),
   HttpResponse(200, <<"upstream-array">>, "array", EmptyDict)}
  \cup {HttpResponse(200, <<"upstream-object">>, "object", o) : o \in Objects}

\* tokens that only the workflow's answers carry
UpstreamTokens ==
  {"upstream-partial", "upstream-error-page", "upstream-created", "upstream-garbage",
   "upstream-array", "upstream-object", "You", "have", "2", "meetings.", "Done.", "Next?", "partial"}

\* request bodies Open WebUI may pass to pipe
UserMessages == {<<"hi">>, <<"what's", " ", " ", "up">>}
Message(content) == [role |-> "user", content |-> content]
Bodies ==
  {[messages |-> <<>>, user |-> [id |-> "u1"]]}
  \cup {[messages |-> <<Message(<<"old">>), Message(m)>>, user |-> [id |-> u]] :
          m \in UserMessages, u \in UserIds}
  \cup {[messages |-> <<[role |-> "user"]>>]}
  \cup {[messages |-> <<Message(<<"hi">>)>>, user |-> Null]}

(* ---------------- protocol events ---------------- *)
ContentChunk(text) == [kind |-> "content", text |-> text]
FinishChunk == [kind |-> "finish", text |-> <<>>]
ErrorChunk(text) == [kind |-> "error", text |-> text]
Done == [kind |-> "done", text |-> <<>>]

NoticeText ==
  <<"Kenny", " ", "router", " ", "unavailable,", " ", "using", " ", "fallback", " ", "mode.", "\n\n">>

\* a fallback text that does not restate the user's message
FallbackResponseNoEcho(user_message) ==
  <<"Kenny's", " ", "advanced", " ", "features", " ", "are", " ", "currently", " ", "unavailable.">>

\* fallback_response of pipe
FallbackResponse(user_message) ==
  <<"I", " ", "received", " ", "your", " ", "message:", " ", "'">> \o user_message
  \o <<"',", " ", "but", " ", "Kenny's", " ", "advanced", " ", "features", " ", "are", " ",
       "currently", " ", "unavailable.", " ", "Please", " ", "check", " ", "that", " ", "all",
       " ", "services", " ", "are", " ", "running.">>

DefaultResponse ==
  <<"I'm", " ", "having", " ", "trouble", " ", "processing", " ", "your", " ", "request.">>

\* the chunks of the fallback branch, after the notice: chunk + ' ' for every word
FallbackChunks(user_message) ==
  LET words == Split(FallbackResponse(user_message)) IN
  [i \in 1..Len(words) |-> ContentChunk(Append(words[i], " "))]

\* the chunks of the success branch: word + " " except after the last word
WordChunks(text) ==
  LET words == Split(text) IN
  [i \in 1..Len(words) |-> ContentChunk(IF i < Len(words) THEN Append(words[i], " ") ELSE words[i])]

\* f'Intent: {intent} ({confidence:.1%})\n\n'
DiagnosticText(intent, confidence) ==
  <<"Intent:", " ">> \o intent.v \o <<" ", "(", ToString(confidence.v), ".0%", ")", "\n\n">>

(* ---------------- Pipe ---------------- *)
Uuid(n) == <<"uuid", n>>

\* an expiry test that every session fails
StaleAlways(data) == TRUE

\* the expiry test of get_session_id
StaleEntry(data) == now - Get(data, "last_activity", 0) > valves.session_timeout

\* session_cache without its expired sessions
RECURSIVE PurgeExpired(_)
PurgeExpired(cache) ==
  IF cache = <<>> THEN <<>>
  ELSE (IF StaleEntry(Head(cache)) THEN <<>> ELSE <<Head(cache)>>) \o PurgeExpired(Tail(cache))

\* a search that finds no session
FindNobody(cache, user_id) == 0

\* a search that takes the first session whoever owns it
FindAnyUser(cache, user_id) == IF cache = <<>> THEN 0 ELSE 1

\* the first session of the user in iteration order, 0 when there is none
FindUser(cache, user_id) ==
  IF \E i \in 1..Len(cache) : cache[i].user_id = user_id
  THEN CHOOSE i \in 1..Len(cache) :
         /\ cache[i].user_id = user_id
         /\ \A j \in 1..(i - 1) : cache[j].user_id # user_id
  ELSE 0

NewCacheEntry(session_id, user_id) ==
  [session_id |-> session_id, user_id |-> user_id, created_at |-> now,
   last_activity |-> now, conversation_history |-> <<>>]

\* get_session_id: the cache after the call, the id returned, the uuids drawn
get_session_id(cache, user_info) ==
  LET user_id == Get(user_info, "id", "anonymous")
      live == PurgeExpired(cache)
      i == FindUser(live, user_id)
  IN IF i > 0
     THEN [cache |-> [live EXCEPT ![i].last_activity = now],
           session_id |-> live[i].session_id, drew |-> 0]
     ELSE [cache |-> Append(live, NewCacheEntry(Uuid(uuid_next + 1), user_id)),
           session_id |-> Uuid(uuid_next + 1), drew |-> 1]

CacheIndex(cache, session_id) ==
  IF \E i \in 1..Len(cache) : cache[i].session_id = session_id
  THEN CHOOSE i \in 1..Len(cache) : cache[i].session_id = session_id
  ELSE 0

HistoryOf(cache, session_id) ==
  IF CacheIndex(cache, session_id) = 0 THEN <<>>
  ELSE cache[CacheIndex(cache, session_id)].conversation_history

\* a payload that carries the whole retained history
PayloadWholeHistory(cache, message, session_id, user_info) ==
  [message |-> message, session_id |-> session_id,
   user |-> [id |-> Get(user_info, "id", "anonymous"), email |-> Get(user_info, "email", ""),
             name |-> Get(user_info, "name", "User")],
   timestamp |-> now,
   conversation_history |-> HistoryOf(cache, session_id)]

\* the payload posted to the router
Payload(cache, message, session_id, user_info) ==
  [message |-> message, session_id |-> session_id,
   user |-> [id |-> Get(user_info, "id", "anonymous"), email |-> Get(user_info, "email", ""),
             name |-> Get(user_info, "name", "User")],
   timestamp |-> now,
   conversation_history |-> LastN(HistoryOf(cache, session_id), HistoryWindow)]

\* the entry appended to conversation_history on status 200
HistoryEntry(message, result) ==
  [user_message |-> message, kenny_response |-> Get(result, "response", Str(<<>>)),
   intent |-> Get(result, "intent", Str(<<"unknown">>)),
   confidence |-> Get(result, "confidence", Num(0)), timestamp |-> now]

\* a truncation that keeps the oldest exchanges
RetainHistoryOldest(history) ==
  IF Len(history) > RetainCap THEN SubSeq(history, 1, RetainCap) ELSE history

\* "Keep only last 10 exchanges"
RetainHistory(history) ==
  IF Len(history) > RetainCap THEN LastN(history, RetainCap) ELSE history

\* a failure result without the fallback mark
FallbackResultUnmarked(error) == [error |-> Str(error)]

\* the dict returned on a failed call
FallbackResult(error) == [error |-> Str(error), fallback |-> Bool(TRUE)]

\* the value response.json() returns for a body that is JSON but no object
ParsedBody(http) ==
  IF http.parsed = "object" THEN http.object ELSE [not_an_object |-> Bool(TRUE)]

\* a status test that accepts every status
StatusAlwaysOk(status) == TRUE

\* the status test of call_n8n_router
StatusOk(status) == status = 200

\* call_n8n_router: the cache after the call and the dict returned
call_n8n_router(cache, message, session_id, user_info, http) ==
  IF http.kind = "timeout" THEN [cache |-> cache, result |-> FallbackResult(<<"Kenny router timeout">>)]
  ELSE IF http.kind = "error" THEN [cache |-> cache, result |-> FallbackResult(<<"Kenny router error">>)]
  ELSE IF ~StatusOk(http.status) THEN [cache |-> cache, result |-> FallbackResult(<<"n8n router failed">>)]
  ELSE IF http.parsed = "no"
       \* response.json() raises
       THEN [cache |-> cache, result |-> FallbackResult(<<"Kenny router error">>)]
  ELSE IF CacheIndex(cache, session_id) = 0
       \* a 200 body of any JSON type is returned as it is
       THEN [cache |-> cache, result |-> ParsedBody(http)]
  ELSE IF http.parsed = "array"
       \* result.get raises AttributeError
       THEN [cache |-> cache, result |-> FallbackResult(<<"Kenny router error">>)]
  ELSE LET i == CacheIndex(cache, session_id) IN
       [cache |-> [cache EXCEPT ![i].conversation_history =
                     RetainHistory(Append(@, HistoryEntry(message, http.object)))],
        result |-> http.object]

IsUnknown(intent) == intent.t = "str" /\ intent.v = <<"unknown">>

\* an error event that is not followed by the sentinel
PipelineErrorUnterminated == <<ErrorChunk(<<"Pipeline", " ", "error">>)>>

\* what the except branch of pipe yields
PipelineError == <<ErrorChunk(<<"Pipeline", " ", "error">>), Done>>

\* the events pipe yields after call_n8n_router returned kenny_result
Stream(kenny_result, user_message) ==
  IF "not_an_object" \in DOMAIN kenny_result
  \* kenny_result.get raises
  THEN PipelineError
  ELSE IF Truthy(Get(kenny_result, "fallback", Null))
  THEN <<ContentChunk(NoticeText)>> \o FallbackChunks(user_message) \o <<FinishChunk, Done>>
  ELSE LET kenny_response == Get(kenny_result, "response", Str(DefaultResponse))
           intent == Get(kenny_result, "intent", Str(<<"unknown">>))
           confidence == Get(kenny_result, "confidence", Num(0))
           diagnostic == valves.debug_mode /\ ~IsUnknown(intent)
       IN IF diagnostic /\ confidence.t \notin {"num", "bool"}
          \* the format spec .1% raises on a value that is no number
          THEN PipelineError
          ELSE (IF diagnostic THEN <<ContentChunk(DiagnosticText(intent, confidence))>> ELSE <<>>)
               \o (IF kenny_response.t # "str"
                   \* kenny_response.split() raises
                   THEN PipelineError
                   ELSE WordChunks(kenny_response.v) \o <<FinishChunk, Done>>)

Generator(stream) == [stream |-> stream, pulled |-> 1, closed |-> FALSE]

\* the first next() on pipe(body): everything up to the first yield runs, and what the
\* generator will yield from then on is decided
pipe(body, http) ==
  LET messages == Get(body, "messages", <<>>) IN
  /\ requests' = requests + 1
  /\ IF messages = <<>>
     THEN /\ gen' = Generator(<<ErrorChunk(<<"No", " ", "messages", " ", "provided">>)>>)
          /\ relay' = [calls |-> 0, outcome |-> "no_messages", http |-> <<>>, payload |-> <<>>,
                       session_id |-> <<>>, user_message |-> <<>>]
          /\ UNCHANGED <<session_cache, uuid_next>>
     ELSE LET user_message == Get(messages[Len(messages)], "content", <<>>)
              user_info == Get(body, "user", EmptyDict)
          IN IF user_info = Null
             \* __user__.get raises in get_session_id
             THEN /\ gen' = Generator(PipelineError)
                  /\ relay' = [calls |-> 0, outcome |-> "fault", http |-> <<>>, payload |-> <<>>,
                               session_id |-> <<>>, user_message |-> user_message]
                  /\ UNCHANGED <<session_cache, uuid_next>>
             ELSE LET got == get_session_id(session_cache, user_info)
                      called == call_n8n_router(got.cache, user_message, got.session_id, user_info, http)
                  IN /\ session_cache' = called.cache
                     /\ uuid_next' = uuid_next + got.drew
                     /\ gen' = Generator(Stream(called.result, user_message))
                     /\ relay' = [calls |-> 1,
                                  outcome |-> IF Truthy(Get(called.result, "fallback", Null))
                                              THEN "fallback" ELSE "success",
                                  http |-> <<http>>,
                                  payload |-> <<Payload(got.cache, user_message, got.session_id, user_info)>>,
                                  session_id |-> <<got.session_id>>, user_message |-> user_message]
  /\ UNCHANGED <<now, ticks, mgr_vars, valves>>

\* a generator that records the exchange in the history only when its last event is pulled
next_event_recording ==
  /\ ~gen.closed
  /\ gen.pulled < Len(gen.stream)
  /\ gen' = [gen EXCEPT !.pulled = @ + 1]
  /\ session_cache' =
       IF gen.pulled + 1 = Len(gen.stream) /\ relay.calls = 1
          /\ CacheIndex(session_cache, relay.session_id[1]) > 0
       THEN [session_cache EXCEPT ![CacheIndex(session_cache, relay.session_id[1])].conversation_history =
               RetainHistory(Append(@, HistoryEntry(relay.user_message, EmptyDict)))]
       ELSE session_cache
  /\ UNCHANGED <<now, ticks, mgr_vars, valves, uuid_next, relay, requests>>

\* the caller pulls the next event
next_event ==
  /\ ~gen.closed
  /\ gen.pulled < Len(gen.stream)
  /\ gen' = [gen EXCEPT !.pulled = @ + 1]
  /\ UNCHANGED <<now, ticks, mgr_vars, valves, session_cache, uuid_next, relay, requests>>

\* the caller abandons the stream
close_stream ==
  /\ ~gen.closed
  /\ gen.pulled >= 1
  /\ gen.pulled < Len(gen.stream)
  /\ gen' = [gen EXCEPT !.closed = TRUE]
  /\ UNCHANGED <<now, ticks, mgr_vars, valves, session_cache, uuid_next, relay, requests>>

\* Open WebUI stores new valve settings
update_valves(debug_mode) ==
  /\ debug_mode # valves.debug_mode
  /\ valves' = [valves EXCEPT !.debug_mode = debug_mode]
  /\ UNCHANGED <<now, ticks, mgr_vars, session_cache, uuid_next, relay, gen, requests>>

(* ---------------- coroutines of one process ---------------- *)
(* A coroutine runs without interruption until it awaits a network-cache   *)
(* command.  The client takes a pooled connection per command, so commands *)
(* of suspended coroutines reach the server in any order; each takes       *)
(* effect at some moment of its await, and its coroutine resumes later.    *)
Idle == [op |-> "idle", pc |-> "done", proc |-> "", session_id |-> "", value |-> <<>>]

\* add_turn up to its await: the append, and the snapshot handed to setex
start_add_turn(t, p, session_id, in) ==
  /\ tasks[t] = Idle
  /\ IF session_id \notin DOMAIN sessions[p]
     THEN /\ ret' = Returned("add_turn", p, session_id, "none", <<>>)
          /\ UNCHANGED <<sessions, appended, tasks>>
     ELSE LET turn_data == TurnData(sessions[p][session_id], in)
              session == WithTurn(sessions[p][session_id], turn_data)
          IN
          /\ sessions' = [sessions EXCEPT ![p] = Put(@, session_id, session)]
          /\ appended' = [appended EXCEPT ![p] = Put(@, session_id, Append(@[session_id], turn_data))]
          /\ IF redis_conn[p]
             THEN /\ tasks' = [tasks EXCEPT ![t] =
                                 [op |-> "add_turn", pc |-> "setex", proc |-> p,
                                  session_id |-> session_id, value |-> <<JsonDumps(session)>>]]
                  /\ UNCHANGED ret
             ELSE /\ ret' = Returned("add_turn", p, session_id, "memory", <<session>>)
                  /\ UNCHANGED tasks
  /\ UNCHANGED <<now, ticks, redis_conn, redis, conversations, conversation_turns, pipe_vars>>

\* the server executes the setex of a suspended coroutine
redis_setex(t) ==
  /\ tasks[t].pc = "setex"
  /\ redis' = RedisSetex(redis, RedisKey(tasks[t].session_id), SessionTimeout, tasks[t].value[1])
  /\ tasks' = [tasks EXCEPT ![t].pc = "reply"]
  /\ UNCHANGED <<now, ticks, redis_conn, sessions, conversations, conversation_turns, ret,
                 appended, pipe_vars>>

\* the coroutine resumes with the reply and returns
finish_add_turn(t) ==
  /\ tasks[t].op = "add_turn"
  /\ tasks[t].pc = "reply"
  /\ tasks' = [tasks EXCEPT ![t] = Idle]
  /\ ret' = Returned("add_turn", tasks[t].proc, tasks[t].session_id, "memory",
                     <<sessions[tasks[t].proc][tasks[t].session_id]>>)
  /\ UNCHANGED <<now, ticks, redis_conn, sessions, redis, conversations, conversation_turns,
                 appended, pipe_vars>>

\* the other coroutines of p that wait for their setex after installing a record for the
\* session: once the entry is replaced or deleted, the map no longer holds their record
Orphaned(ts, t, p, session_id) ==
  [x \in DOMAIN ts |->
     IF /\ x # t
        /\ ts[x].op = "resolve" /\ ts[x].pc \in {"setex", "reply"}
        /\ ts[x].proc = p /\ ts[x].session_id = session_id
     THEN [ts[x] EXCEPT !.value = <<@[1], @[2], FALSE, @[4]>>]
     ELSE ts[x]]

\* a lookup in the durable store that finds no conversation
FromStoreUnseen(session_id, user_id) ==
  [found |-> FALSE, session |-> NewSession(session_id, user_id),
   conversations |-> Append(conversations, ConversationRow(session_id, user_id))]

\* get_or_create_session from the select to the record it builds: nothing is awaited
FromStore(session_id, user_id) ==
  LET result == SelectEq(conversations, "session_id", session_id) IN
  IF result # <<>>
  THEN [found |-> TRUE,
        session |-> LoadedSession(session_id, user_id, result[1],
                                  SelectEq(conversation_turns, "conversation_id", result[1].id)),
        conversations |-> conversations]
  ELSE [found |-> FALSE, session |-> NewSession(session_id, user_id),
        conversations |-> Append(conversations, ConversationRow(session_id, user_id))]

\* get_or_create_session up to its first await
start_resolve(t, p, session_id, user_id) ==
  /\ tasks[t] = Idle
  /\ IF session_id \in DOMAIN sessions[p]
     THEN LET session == MemoryHit(sessions[p][session_id]) IN
          /\ sessions' = [sessions EXCEPT ![p] = Put(@, session_id, session)]
          /\ ret' = Resolved(p, session_id, "memory", session)
          /\ UNCHANGED <<conversations, appended, tasks>>
     ELSE IF redis_conn[p]
     THEN /\ tasks' = [tasks EXCEPT ![t] =
                         [op |-> "resolve", pc |-> "get", proc |-> p,
                          session_id |-> session_id, value |-> <<user_id>>]]
          /\ UNCHANGED <<sessions, conversations, appended, ret>>
     ELSE LET store == FromStore(session_id, user_id) IN
          \* self.redis is None: the call runs to its end without an await
          /\ conversations' = store.conversations
          /\ sessions' = [sessions EXCEPT ![p] = Put(@, session_id, store.session)]
          /\ appended' = [appended EXCEPT ![p] = Put(@, session_id, store.session.turns)]
          /\ ret' = Resolved(p, session_id, IF store.found THEN "supabase" ELSE "new", store.session)
          /\ UNCHANGED tasks
  /\ UNCHANGED <<now, ticks, redis_conn, redis, conversation_turns, pipe_vars>>

\* the server executes the get of a suspended coroutine
redis_get(t) ==
  /\ tasks[t].pc = "get"
  /\ tasks' = [tasks EXCEPT ![t].pc = "got",
                            ![t].value = <<@[1], IF RedisLive(RedisKey(tasks[t].session_id))
                                                 THEN <<redis[RedisKey(tasks[t].session_id)].value>>
                                                 ELSE <<>> >>]
  /\ UNCHANGED <<now, ticks, redis_conn, sessions, redis, conversations, conversation_turns, ret,
                 appended, pipe_vars>>

\* the coroutine resumes with the reply of get: it returns the cached record, or goes to
\* the durable store, installs the record and awaits its setex
resume_resolve(t) ==
  LET p == tasks[t].proc
      session_id == tasks[t].session_id
      user_id == tasks[t].value[1]
      cached == tasks[t].value[2]
  IN
  /\ tasks[t].pc = "got"
  /\ IF cached # <<>>
     THEN LET session == JsonLoadsSession(cached[1]) IN
          /\ sessions' = [sessions EXCEPT ![p] = Put(@, session_id, session)]
          /\ appended' = [appended EXCEPT ![p] = Put(@, session_id, session.turns)]
          /\ tasks' = [Orphaned(tasks, t, p, session_id) EXCEPT ![t] = Idle]
          /\ ret' = [Returned("resolve", p, session_id, "redis", <<session>>)
                       EXCEPT !.probes = <<"memory", "redis">>]
          /\ UNCHANGED conversations
     ELSE LET store == FromStore(session_id, user_id) IN
          /\ conversations' = store.conversations
          /\ sessions' = [sessions EXCEPT ![p] = Put(@, session_id, store.session)]
          /\ appended' = [appended EXCEPT ![p] = Put(@, session_id, store.session.turns)]
          /\ tasks' = [Orphaned(tasks, t, p, session_id) EXCEPT ![t] =
                         [op |-> "resolve", pc |-> "setex", proc |-> p, session_id |-> session_id,
                          value |-> <<JsonDumps(store.session),
                                      IF store.found THEN "supabase" ELSE "new",
                                      TRUE, store.session>>]]
          /\ UNCHANGED ret
  /\ UNCHANGED <<now, ticks, redis_conn, redis, conversation_turns, pipe_vars>>

\* the coroutine resumes with the reply of setex and returns its record: the one the map
\* holds, with what add_turn did to it since, unless the entry was replaced or deleted
finish_resolve(t) ==
  LET p == tasks[t].proc
      session_id == tasks[t].session_id
  IN
  /\ tasks[t].op = "resolve"
  /\ tasks[t].pc = "reply"
  /\ tasks' = [tasks EXCEPT ![t] = Idle]
  /\ ret' = [Returned("resolve", p, session_id, tasks[t].value[2],
                      <<IF tasks[t].value[3] THEN sessions[p][session_id] ELSE tasks[t].value[4]>>)
               EXCEPT !.probes = <<"memory", "redis", "supabase">>]
  /\ UNCHANGED <<now, ticks, redis_conn, sessions, redis, conversations, conversation_turns,
                 appended, pipe_vars>>

\* the orders in which a list of the given session ids can stand
Orders(sids) ==
  {order \in [1..Cardinality(sids) -> sids] :
     \A i, j \in 1..Cardinality(sids) : order[i] = order[j] => i = j}

\* cleanup_sessions up to its first await: the list of expired sessions is taken, the
\* first is deleted from the map.  The list stands in the dict's insertion order, which
\* the map of this model does not keep: every order is offered.
start_cleanup(t, p) ==
  LET expired == {sid \in DOMAIN sessions[p] : Expired(sessions[p][sid])} IN
  /\ tasks[t] = Idle
  /\ IF expired = {}
     THEN /\ ret' = Returned("cleanup", p, "", "none", <<>>)
          /\ UNCHANGED <<sessions, tasks>>
     ELSE IF ~redis_conn[p]
     THEN /\ sessions' = [sessions EXCEPT ![p] = DelAll(@, expired)]
          /\ ret' = Returned("cleanup", p, "", "none", <<>>)
          /\ UNCHANGED tasks
     ELSE \E order \in Orders(expired) :
          /\ sessions' = [sessions EXCEPT ![p] = Del(@, order[1])]
          /\ tasks' = [Orphaned(tasks, t, p, order[1]) EXCEPT ![t] =
                         [op |-> "cleanup", pc |-> "delete", proc |-> p,
                          session_id |-> order[1], value |-> Tail(order)]]
          /\ UNCHANGED ret
  /\ UNCHANGED <<now, ticks, redis_conn, redis, conversations, conversation_turns, appended,
                 pipe_vars>>

\* the server executes the delete of a suspended sweep
redis_delete(t) ==
  /\ tasks[t].pc = "delete"
  /\ redis' = Del(redis, RedisKey(tasks[t].session_id))
  /\ tasks' = [tasks EXCEPT ![t].pc = "deleted"]
  /\ UNCHANGED <<now, ticks, redis_conn, sessions, conversations, conversation_turns, ret,
                 appended, pipe_vars>>

\* the sweep resumes with the reply of delete and takes the next session of its list:
\* del self.sessions[sid] raises KeyError when the entry is gone
resume_cleanup(t) ==
  LET p == tasks[t].proc
      rest == tasks[t].value
  IN
  /\ tasks[t].pc = "deleted"
  /\ IF rest = <<>>
     THEN /\ tasks' = [tasks EXCEPT ![t] = Idle]
          /\ ret' = Returned("cleanup", p, "", "none", <<>>)
          /\ UNCHANGED sessions
     ELSE IF Head(rest) \notin DOMAIN sessions[p]
     THEN /\ tasks' = [tasks EXCEPT ![t] = Idle]
          /\ ret' = Returned("cleanup", p, Head(rest), "KeyError", <<>>)
          /\ UNCHANGED sessions
     ELSE /\ sessions' = [sessions EXCEPT ![p] = Del(@, Head(rest))]
          /\ tasks' = [Orphaned(tasks, t, p, Head(rest)) EXCEPT ![t] =
                         [op |-> "cleanup", pc |-> "delete", proc |-> p,
                          session_id |-> Head(rest), value |-> Tail(rest)]]
          /\ UNCHANGED ret
  /\ UNCHANGED <<now, ticks, redis_conn, redis, conversations, conversation_turns, appended,
                 pipe_vars>>

(* ---------------- specifications ---------------- *)
Init ==
  /\ now = 0
  /\ ticks = 0
  /\ redis_conn = [p \in Procs |-> FALSE]
  /\ sessions = [p \in Procs |-> EmptyDict]
  /\ redis = EmptyDict
  /\ conversations = <<>>
  /\ conversation_turns = <<>>
  /\ ret = Returned("init", "", "", "none", <<>>)
  /\ appended = [p \in Procs |-> EmptyDict]
  /\ tasks = [t \in TaskIds |-> Idle]
  /\ valves = [debug_mode |-> TRUE, session_timeout |-> ValvesSessionTimeout]
  /\ session_cache = <<>>
  /\ uuid_next = 0
  /\ relay = [calls |-> 0, outcome |-> "none", http |-> <<>>, payload |-> <<>>,
              session_id |-> <<>>, user_message |-> <<>>]
  /\ gen = [stream |-> <<>>, pulled |-> 0, closed |-> FALSE]
  /\ requests = 0

\* add_turn is offered while the record has held fewer than bound turns
MayAppend(p, session_id, bound) ==
  session_id \in DOMAIN sessions[p] => Len(appended[p][session_id]) < bound

\* the session manager's handlers, each run to completion
ManagerNext(procs, sids, bound) ==
  \/ \E p \in procs : initialize(p)
  \/ \E p \in procs, sid \in sids, u \in UserIds : get_or_create_session(p, sid, u)
  \/ \E p \in procs, sid \in sids, in \in TurnInputs :
       MayAppend(p, sid, bound) /\ add_turn(p, sid, in)
  \/ \E p \in procs : cleanup_sessions(p)

\* One gateway process serving one session
Next ==
  \/ \E d \in TickSteps : Tick(d, MaxTicks)
  \/ ManagerNext({"p1"}, {"s1"}, MaxTurns)

Spec == Init /\ [][Next]_vars

\* One gateway process serving two sessions
WideNext ==
  \/ \E d \in TickSteps : Tick(d, MaxWideTicks)
  \/ ManagerNext({"p1"}, SessionIds, MaxWideTurns)

WideSpec == Init /\ [][WideNext]_vars

\* Two gateway processes serving one session
MultiNext ==
  \/ \E d \in TickSteps : Tick(d, MaxWideTicks)
  \/ ManagerNext(Procs, {"s1"}, MaxWideTurns)

MultiSpec == Init /\ [][MultiNext]_vars

\* the caller of add_turn alternates between the two exchanges
AlternatingInput(n) ==
  CHOOSE in \in TurnInputs : (in.user_message = <<"hi">>) <=> (n % 2 = 0)

\* the session manager's handlers called for the given users with the given exchanges
ManagerNextFor(procs, sids, users, inputs, bound) ==
  \/ \E p \in procs : initialize(p)
  \/ \E p \in procs, sid \in sids, u \in users : get_or_create_session(p, sid, u)
  \/ \E p \in procs, sid \in sids, in \in inputs :
       MayAppend(p, sid, bound) /\ add_turn(p, sid, in)
  \/ \E p \in procs : cleanup_sessions(p)

\* Two gateway processes serving one session of one user
ProbeNext ==
  \/ \E d \in TickSteps : Tick(d, MaxWideTicks)
  \/ ManagerNextFor(Procs, {"s1"}, {"u1"}, {AlternatingInput(0)}, MaxWideTurns)

ProbeSpec == Init /\ [][ProbeNext]_vars

\* One gateway process serving two sessions of one user
SweepNext ==
  \/ \E d \in TickSteps : Tick(d, MaxWideTicks)
  \/ ManagerNextFor({"p1"}, SessionIds, {"u1"}, {AlternatingInput(0)}, MaxWideTurns)

SweepSpec == Init /\ [][SweepNext]_vars

\* One process whose add_turn calls interleave at their awaits
ConcNext ==
  \/ initialize("p1")
  \/ \E u \in UserIds : get_or_create_session("p1", "s1", u)
  \/ \E t \in TaskIds, in \in TurnInputs :
       MayAppend("p1", "s1", MaxConcTurns) /\ start_add_turn(t, "p1", "s1", in)
  \/ \E t \in TaskIds : redis_setex(t)
  \/ \E t \in TaskIds : finish_add_turn(t)

ConcSpec == Init /\ [][ConcNext]_vars

\* the turns the record of p1 for s1 has held
Appends == Len(Get(appended["p1"], "s1", <<>>))

\* One record of the session manager and one of the pipeline, appended to past the cap
AppendNext ==
  \/ "s1" \notin DOMAIN sessions["p1"] /\ get_or_create_session("p1", "s1", "u1")
  \/ Appends < MaxAppends /\ add_turn("p1", "s1", AlternatingInput(Appends))
  \/ \E m \in UserMessages :
       /\ requests < MaxExchanges
       /\ pipe([messages |-> <<Message(m)>>, user |-> [id |-> "u1"]],
               HttpResponse(200, <<"upstream-object">>, "object", OkBody))

AppendSpec == Init /\ [][AppendNext]_vars

\* The pipeline: requests, each run to its first yield
PipeNext ==
  \/ \E d \in TickSteps : Tick(d, MaxTicks)
  \/ \E body \in Bodies, http \in HttpOutcomes : requests < MaxRequests /\ pipe(body, http)
  \/ \E b \in BOOLEAN : update_valves(b)

PipeSpec == Init /\ [][PipeNext]_vars

\* The pipeline handling a request
RelayNext ==
  \/ \E d \in TickSteps : Tick(d, MaxWideTicks)
  \/ \E body \in Bodies, http \in HttpOutcomes : requests < MaxRelayRequests /\ pipe(body, http)
  \/ \E b \in BOOLEAN : update_valves(b)

RelaySpec == Init /\ [][RelayNext]_vars

\* The pipeline's session cache: requests of every user, answered or timed out
CacheNext ==
  \/ \E d \in TickSteps : Tick(d, MaxWideTicks)
  \/ \E body \in Bodies,
        http \in {HttpTimeout, HttpResponse(200, <<"upstream-object">>, "object", OkBody)} :
       requests < MaxRequests /\ pipe(body, http)

CacheSpec == Init /\ [][CacheNext]_vars

\* One session of the session manager and one user of the pipeline growing idle
ExpiryNext ==
  \/ \E d \in TickSteps : Tick(d, MaxTicks)
  \/ initialize("p1")
  \/ get_or_create_session("p1", "s1", "u1")
  \/ cleanup_sessions("p1")
  \/ \E http \in {HttpTimeout, HttpResponse(200, <<"upstream-object">>, "object", OkBody)} :
       /\ requests < MaxRequests
       /\ pipe([messages |-> <<Message(<<"hi">>)>>, user |-> [id |-> "u1"]], http)

ExpirySpec == Init /\ [][ExpiryNext]_vars

\* One gateway process serving a session whose turns the durable store holds
StoreNext ==
  \/ \E d \in TickSteps : Tick(d, MaxWideTicks)
  \/ get_or_create_session("p1", "s1", "u1")
  \/ MayAppend("p1", "s1", MaxWideTurns) /\ add_turn("p1", "s1", AlternatingInput(0))
  \/ cleanup_sessions("p1")
  \/ store_turn_row("s1")

StoreSpec == Init /\ [][StoreNext]_vars

\* the steps of the coroutines of get_or_create_session and add_turn
ResolveSteps(p, sids, users) ==
  \/ \E t \in TaskIds, sid \in sids, u \in users : start_resolve(t, p, sid, u)
  \/ \E t \in TaskIds : redis_get(t)
  \/ \E t \in TaskIds : resume_resolve(t)
  \/ \E t \in TaskIds : redis_setex(t)
  \/ \E t \in TaskIds : finish_resolve(t)

\* One process whose lookups and appends for one session interleave at their awaits
RaceNext ==
  \/ initialize("p1")
  \/ ResolveSteps("p1", {"s1"}, {"u1"})
  \/ \E t \in TaskIds :
       MayAppend("p1", "s1", MaxWideTurns) /\ start_add_turn(t, "p1", "s1", AlternatingInput(0))
  \/ \E t \in TaskIds : finish_add_turn(t)

RaceSpec == Init /\ [][RaceNext]_vars

\* One process whose sweeps interleave with its lookups and with each other
ReapNext ==
  \/ \E d \in TickSteps : Tick(d, MaxWideTicks)
  \/ initialize("p1")
  \/ ResolveSteps("p1", SessionIds, {"u1"})
  \/ \E t \in TaskIds : start_cleanup(t, "p1")
  \/ \E t \in TaskIds : redis_delete(t)
  \/ \E t \in TaskIds : resume_cleanup(t)

ReapSpec == Init /\ [][ReapNext]_vars

\* The pipeline with its caller pulling or abandoning the stream
StreamNext ==
  \/ \E body \in Bodies, http \in HttpOutcomes : requests < MaxRequests /\ pipe(body, http)
  \/ next_event
  \/ close_stream

StreamSpec == Init /\ [][StreamNext]_vars

(* ======================= the claims ======================= *)
IsPrefixAt(xs, ys, k) == \A i \in 1..Len(ys) : xs[k + i] = ys[i]
\* ys occurs in xs as a run of consecutive elements
ContainsSeq(xs, ys) == \E k \in 0..(Len(xs) - Len(ys)) : IsPrefixAt(xs, ys, k)

RECURSIVE NonSpace(_)
NonSpace(text) ==
  IF text = <<>> THEN <<>>
  ELSE (IF IsSpace(Head(text)) THEN <<>> ELSE <<Head(text)>>) \o NonSpace(Tail(text))

Count(stream, kind) == Cardinality({i \in 1..Len(stream) : stream[i].kind = kind})

\* the stream closes with one finish chunk and then the sentinel, and holds no other of either
EndsFinishDone(stream) ==
  /\ Len(stream) >= 2
  /\ stream[Len(stream) - 1] = FinishChunk
  /\ stream[Len(stream)] = Done
  /\ Count(stream, "finish") = 1
  /\ Count(stream, "done") = 1

\* the workflow call failed: deadline, transport, a status outside 2xx, or a body that is no JSON object
WorkflowCallFailed(http) ==
  \/ http.kind \in {"timeout", "error"}
  \/ http.status < 200
  \/ http.status > 299
  \/ http.parsed # "object"

\* C1: the turn numbers assigned by the appends to one record are exactly 1..N,
\* also when N exceeds the retention cap of 10.
C1_TurnNumbersOneToN ==
  \A p \in Procs : \A sid \in DOMAIN appended[p] :
    \A i \in 1..Len(appended[p][sid]) : appended[p][sid][i].turn_number = i

\* the manager's record retains the last min(N, 10) of the N turns appended to it
C2_ManagerRetained ==
  \A p \in Procs : \A sid \in DOMAIN sessions[p] :
    /\ Len(sessions[p][sid].turns) = Min(Len(appended[p][sid]), RetainCap)
    /\ sessions[p][sid].turns = LastN(appended[p][sid], RetainCap)

\* the pipeline's history has min(N, 10) entries after the N-th request, all successful
C2_HistoryRetained ==
  \A i \in 1..Len(session_cache) :
    LET history == session_cache[i].conversation_history IN
    /\ Len(history) = Min(requests, RetainCap)
    /\ history[Len(history)].user_message = relay.user_message

\* a history update appends the new exchange and drops at most the oldest one
C2_HistoryStep ==
  \A i \in 1..Len(session_cache') :
    LET new == session_cache'[i].conversation_history
        old == HistoryOf(session_cache, session_cache'[i].session_id)
    IN new # old =>
         /\ Len(new) = Min(Len(old) + 1, RetainCap)
         /\ SubSeq(new, 1, Len(new) - 1) = LastN(old, Len(new) - 1)
         /\ new[Len(new)].user_message = relay'.user_message

\* C2: after the N-th append the record retains min(N, 10) turns, the most recent ones in
\* insertion order; an append leaves the retained turns as they were and drops only the
\* oldest.  For the session manager's add_turn and for the pipeline's history update.
C2_RetainsMostRecent ==
  /\ [](C2_ManagerRetained /\ C2_HistoryRetained)
  /\ [][C2_HistoryStep]_vars

C2_Witness ==
  /\ "s1" \in DOMAIN sessions["p1"]
  /\ Len(appended["p1"]["s1"]) = RetainCap + 1
  /\ Len(sessions["p1"]["s1"].turns) = RetainCap
  /\ requests = RetainCap + 1
  /\ Len(HistoryOf(session_cache, Uuid(1))) = RetainCap

\* C3: every stream produced for a relay outcome, success or fallback, ends with exactly
\* one finish chunk followed by the sentinel, with no other finish chunk or sentinel.
C3_StreamEndsFinishDone ==
  relay.outcome \in {"success", "fallback"} => EndsFinishDone(gen.stream)

\* C4: the stream of every request, also one without messages and one that raised, has
\* the sentinel as its last event.
C4_StreamEndsDone ==
  requests > 0 => /\ gen.stream # <<>>
                  /\ gen.stream[Len(gen.stream)] = Done

\* a request whose workflow call failed leaves one more turn in the session's history
C5_FailedCallStep ==
  (requests' = requests + 1 /\ relay'.calls = 1 /\ WorkflowCallFailed(relay'.http[1])) =>
    LET old == HistoryOf(session_cache, relay'.session_id[1])
        new == HistoryOf(session_cache', relay'.session_id[1])
    IN /\ Len(new) = Len(old) + 1
       /\ IsUnknown(new[Len(new)].intent)
       /\ new[Len(new)].confidence = Num(0)

\* C5: a request whose workflow call fails still appends exactly one turn to the
\* session's history, with intent "unknown" and confidence 0.
C5_FailedCallAppendsTurn == [][C5_FailedCallStep]_vars

\* C6: after a failed workflow call the stream is one degraded-mode notice, then the word
\* chunks of a fallback message that contains the user's message text, then finish and the
\* sentinel; no chunk carries text of the workflow's answer.
C6_FallbackStream ==
  (relay.calls = 1 /\ WorkflowCallFailed(relay.http[1])) =>
    LET stream == gen.stream
        n == Len(stream)
        words == [i \in 1..(n - 3) |-> SubSeq(stream[i + 1].text, 1, Len(stream[i + 1].text) - 1)]
    IN /\ relay.outcome = "fallback"
       /\ EndsFinishDone(stream)
       /\ n >= 3
       /\ stream[1] = ContentChunk(NoticeText)
       /\ \A i \in 2..(n - 2) :
            /\ stream[i].kind = "content"
            /\ stream[i] # ContentChunk(NoticeText)
            /\ Len(stream[i].text) >= 2
            /\ stream[i].text[Len(stream[i].text)] = " "
       /\ \A i \in 1..(n - 3) : \A j \in 1..Len(words[i]) : ~IsSpace(words[i][j])
       /\ words = Split(FallbackResponse(relay.user_message))
       /\ ContainsSeq(FallbackResponse(relay.user_message), relay.user_message)
       /\ ContainsSeq(Concat(words), NonSpace(relay.user_message))
       /\ \A i \in 1..n : \A j \in 1..Len(stream[i].text) : stream[i].text[j] \notin UpstreamTokens

C6_Witness ==
  /\ relay.calls = 1
  /\ relay.http = <<HttpTimeout>>
  /\ relay.user_message = <<"what's", " ", " ", "up">>
  /\ gen.stream[1] = ContentChunk(NoticeText)
  /\ EndsFinishDone(gen.stream)

\* no coroutine is suspended
Quiescent == \A t \in TaskIds : tasks[t] = Idle

\* C7: add_turn calls of one process that interleave at their awaits all take effect: once
\* all have returned, the record holds every turn, numbered consecutively, and the
\* network-cache snapshot holds the same turns.
C7_ConcurrentAppendsKept ==
  (Quiescent /\ "s1" \in DOMAIN sessions["p1"] /\ ret.op = "add_turn" /\ ret.tier = "memory") =>
    LET log == appended["p1"]["s1"]
        turns == sessions["p1"]["s1"].turns
    IN /\ turns = LastN(log, RetainCap)
       /\ \A i \in 1..(Len(log) - 1) : log[i + 1].turn_number = log[i].turn_number + 1
       /\ (redis_conn["p1"] /\ RedisKey("s1") \in DOMAIN redis) =>
            Member(redis[RedisKey("s1")].value, "turns") = turns

\* a write to a live network-cache entry keeps the turns the entry held
C8_CacheWriteStep ==
  \A sid \in SessionIds :
    (RedisLive(RedisKey(sid)) /\ RedisKey(sid) \in DOMAIN redis') =>
      LET old == Member(redis[RedisKey(sid)].value, "turns")
          new == Member(redis'[RedisKey(sid)].value, "turns")
      IN /\ Len(old) < RetainCap => \A i \in 1..Len(old) : \E j \in 1..Len(new) : new[j] = old[i]
         /\ \A i, j \in 1..Len(new) : i # j => new[i].turn_number # new[j].turn_number

\* C8: with two processes serving one session, no network-cache write discards a turn the
\* cache held, and the turns of a snapshot carry distinct turn numbers.
C8_NoAppendDiscarded == [][C8_CacheWriteStep]_vars

\* a record reloaded from the durable store has the turns the evicted record had
C9_ReloadStep ==
  \A p \in Procs : \A sid \in DOMAIN appended[p] :
    (redis_conn[p] /\ sid \notin DOMAIN sessions[p] /\ sid \in DOMAIN sessions'[p]
       /\ ret'.tier = "supabase") =>
      ret'.value[1].turns = LastN(appended[p][sid], RetainCap)

\* C9: a record with turns that is evicted from the process-local map and the network
\* cache and resolved again comes back with the turns it held before eviction.
C9_RoundTrip == [][C9_ReloadStep]_vars

\* a resolve of an unexpired session in the process-local map returns it as it was, refreshed
C10_ResolveStep ==
  \A p \in Procs : \A sid \in DOMAIN sessions[p] :
    (ret'.op = "resolve" /\ ret'.proc = p /\ ret'.session_id = sid /\ ~Expired(sessions[p][sid])) =>
      /\ ret'.value[1].turns = sessions[p][sid].turns
      /\ ret'.value[1].last_activity >= sessions[p][sid].last_activity
      /\ sessions'[p][sid] = ret'.value[1]

\* C10: resolving a session that is in the process-local map and not expired returns its
\* turns unchanged and a last-activity timestamp that is not smaller than before.
C10_ResolveIdempotent == [][C10_ResolveStep]_vars

C10_Witness ==
  /\ ret.op = "resolve"
  /\ ret.tier = "memory"
  /\ ret.value[1].turns # <<>>
  /\ ret.value[1].last_activity > ret.value[1].created_at
  /\ ~Expired(ret.value[1])

\* the step is a get_or_create_session(sid, _) of process p
IsResolve(p, sid) ==
  /\ ret'.op = "resolve" /\ ret'.proc = p /\ ret'.session_id = sid
  /\ now' = now /\ tasks' = tasks

\* the conversation rows of a session id
RowsOf(rows, sid) == {i \in 1..Len(rows) : rows[i].session_id = sid}

\* the network cache holds a live snapshot of the record
Snapshot(store, session) ==
  /\ RedisKey(session.session_id) \in DOMAIN store
  /\ JsonLoadsSession(store[RedisKey(session.session_id)].value) = session

\* C11: get_or_create_session answers from the process-local map only when the entry's
\* idle time does not exceed the timeout.
C11_MemoryHitNotExpired ==
  [][\A p \in Procs : \A sid \in DOMAIN sessions[p] :
       (IsResolve(p, sid) /\ ret'.tier = "memory") => ~Expired(sessions[p][sid])]_vars

\* a lookup consults the tiers in the order memory, network cache, durable store, and the
\* first tier that has the record answers
C12_OrderStep(p, sid) ==
  LET probes == ret'.probes
      hit1 == sid \in DOMAIN sessions[p]
  IN /\ probes \in {<<"memory">>, <<"memory", "redis">>, <<"memory", "supabase">>,
                    <<"memory", "redis", "supabase">>}
     /\ (\E i \in 1..Len(probes) : probes[i] = "redis") => ~hit1
     /\ hit1 => /\ ret'.tier = "memory"
                /\ probes = <<"memory">>
                /\ ret'.value[1].turns = sessions[p][sid].turns
     /\ ret'.tier = "redis" =>
          /\ probes = <<"memory", "redis">>
          /\ ret'.value[1] = JsonLoadsSession(redis[RedisKey(sid)].value)
          /\ conversations' = conversations
     /\ ret'.tier \in {"supabase", "new"} => probes[Len(probes)] = "supabase"

\* C12 as stated: the durable store is queried only when the process-local map and the
\* network cache both lack the session.
C12_StoreOnlyOnCacheMiss ==
  [][\A p \in Procs : \A sid \in SessionIds :
       IsResolve(p, sid) =>
         /\ C12_OrderStep(p, sid)
         /\ (\E i \in 1..Len(ret'.probes) : ret'.probes[i] = "supabase") =>
              (sid \notin DOMAIN sessions[p] /\ ~RedisLive(RedisKey(sid)))]_vars

\* C12, amended: the tiers are consulted in the order memory, network cache, durable store;
\* the network cache is read only on a memory miss by a process connected to it, and the
\* durable store is queried only when memory misses and the process is not connected to
\* the network cache or its read found nothing.
C12_ProbeOrder ==
  [][\A p \in Procs : \A sid \in SessionIds :
       IsResolve(p, sid) =>
         /\ C12_OrderStep(p, sid)
         /\ (\E i \in 1..Len(ret'.probes) : ret'.probes[i] = "redis") => redis_conn[p]
         /\ (\E i \in 1..Len(ret'.probes) : ret'.probes[i] = "supabase") <=>
              (sid \notin DOMAIN sessions[p] /\ ~(redis_conn[p] /\ RedisLive(RedisKey(sid))))
         /\ (sid \notin DOMAIN sessions[p] /\ redis_conn[p] /\ RedisLive(RedisKey(sid))) =>
              ret'.tier = "redis"]_vars

C12_Witness ==
  /\ ret.op = "resolve"
  /\ ret.proc = "p2"
  /\ ret.tier = "redis"
  /\ ret.probes = <<"memory", "redis">>
  /\ conversations # <<>>

\* C13 as stated: after get_or_create_session the record is in the process-local map, and
\* one loaded from the durable store or newly created is in the network cache as well.
C13_BothTiersPopulated ==
  [][\A p \in Procs : \A sid \in SessionIds :
       IsResolve(p, sid) =>
         /\ sid \in DOMAIN sessions'[p]
         /\ sessions'[p][sid] = ret'.value[1]
         /\ ret'.tier \in {"supabase", "new"} => Snapshot(redis', ret'.value[1])]_vars

\* C13, amended: after get_or_create_session the record is in the process-local map; one
\* loaded from the durable store or newly created is in the network cache as well when
\* the process is connected to it, and the network cache is left as it was when not.
C13_TiersPopulatedWhenConnected ==
  [][\A p \in Procs : \A sid \in SessionIds :
       IsResolve(p, sid) =>
         /\ sid \in DOMAIN sessions'[p]
         /\ sessions'[p][sid] = ret'.value[1]
         /\ (ret'.tier \in {"supabase", "new"} /\ redis_conn[p]) =>
              /\ Snapshot(redis', ret'.value[1])
              /\ redis'[RedisKey(sid)].expires_at = now + SessionTimeout
         /\ (ret'.tier \in {"supabase", "new"} /\ ~redis_conn[p]) => redis' = redis]_vars

C13_Witness ==
  /\ ret.op = "resolve"
  /\ ret.tier = "supabase"
  /\ redis_conn["p1"]
  /\ "s1" \in DOMAIN sessions["p1"]
  /\ sessions["p1"]["s1"] = ret.value[1]
  /\ Snapshot(redis, ret.value[1])

\* a lookup that misses every tier creates an empty record and one conversation row; a
\* lookup that finds the row inserts none
C14_CreateStep(p, sid) ==
  LET miss == /\ sid \notin DOMAIN sessions[p]
              /\ ~(redis_conn[p] /\ RedisLive(RedisKey(sid)))
  IN /\ (miss /\ RowsOf(conversations, sid) = {}) =>
          /\ ret'.tier = "new"
          /\ ret'.value[1].turns = <<>>
          /\ Len(conversations') = Len(conversations) + 1
          /\ conversations'[Len(conversations')].session_id = sid
     /\ (miss /\ RowsOf(conversations, sid) # {}) =>
          /\ ret'.tier = "supabase"
          /\ conversations' = conversations
     /\ ~miss => conversations' = conversations

\* C14: a lookup that misses all three tiers creates a record without turns and inserts
\* a conversation row, a later lookup that misses both caches finds that row, and no
\* session id ever has a second conversation row.
C14_OneConversationRow ==
  /\ [](\A sid \in SessionIds : Cardinality(RowsOf(conversations, sid)) <= 1)
  /\ [][\A p \in Procs : \A sid \in SessionIds : IsResolve(p, sid) => C14_CreateStep(p, sid)]_vars

C14_Witness ==
  /\ ret.op = "resolve"
  /\ ret.tier = "supabase"
  /\ Cardinality(RowsOf(conversations, "s1")) = 1
  /\ ret.value[1].created_at < ret.value[1].last_activity

\* C15: when an add_turn call of a process connected to the network cache returns, the
\* network-cache entry of the session is a snapshot whose turns equal the turns of the
\* in-memory record, the new turn included.
C15_WriteThrough ==
  [][\A t \in TaskIds :
       (tasks[t].op = "add_turn" /\ tasks[t].pc = "reply" /\ tasks'[t] = Idle) =>
         LET key == RedisKey(tasks[t].session_id)
             session == sessions'[tasks[t].proc][tasks[t].session_id]
         IN /\ key \in DOMAIN redis'
            /\ Member(redis'[key].value, "turns") = session.turns]_vars

\* the step is a cleanup_sessions() of process p
IsCleanup(p) == ret'.op = "cleanup" /\ ret'.proc = p /\ now' = now /\ tasks' = tasks

\* the entry has been idle for longer than the timeout
IdleTooLong(session) == now - session.last_activity > SessionTimeout

IsDispatch == requests' = requests + 1 /\ relay'.calls = 1

\* C18: the conversation history in the payload is the last min(5, n) entries of the
\* session's retained history at the time of the call, oldest first, at most 5, and
\* without the exchange being dispatched.
C18_PayloadHistory ==
  [][IsDispatch =>
       LET sid == relay'.session_id[1]
           before == HistoryOf(session_cache, sid)
           after == HistoryOf(session_cache', sid)
           sent == relay'.payload[1].conversation_history
           n == Len(before)
           k == Len(sent)
       IN /\ k <= HistoryWindow
          /\ k = Min(HistoryWindow, n)
          /\ \A i \in 1..k : sent[i] = before[n - k + i]
          /\ relay'.payload[1].message = relay'.user_message
          /\ relay'.payload[1].session_id = sid
          /\ after # before =>
               /\ after[Len(after)].user_message = relay'.user_message
               /\ \A i \in 1..k : sent[i] = after[Len(after) - 1 - k + i]]_vars

C18_Witness ==
  /\ relay.calls = 1
  /\ requests = RetainCap + 1
  /\ Len(relay.payload[1].conversation_history) = HistoryWindow
  /\ Len(HistoryOf(session_cache, relay.session_id[1])) = RetainCap
  /\ relay.payload[1].conversation_history[HistoryWindow]
       = HistoryOf(session_cache, relay.session_id[1])[RetainCap - 1]

\* C19 as stated: handling a request issues exactly one outbound workflow call.
C19_ExactlyOneCall == requests > 0 => relay.calls = 1

\* C19, amended: handling a request issues at most one outbound workflow call: one when
\* the request has a message and a user object, none when its message list is empty or
\* it fails before the dispatch; a call that timed out or failed is not repeated and
\* the request ends as a fallback.
C19_AtMostOneCall ==
  requests > 0 =>
    /\ relay.calls \in {0, 1}
    /\ Len(relay.http) = relay.calls
    /\ Len(relay.payload) = relay.calls
    /\ relay.calls = 1 <=> relay.outcome \in {"success", "fallback"}
    /\ relay.calls = 0 <=> relay.outcome \in {"no_messages", "fault"}
    /\ (relay.calls = 1 /\ WorkflowCallFailed(relay.http[1])) =>
         /\ relay.outcome = "fallback"
         /\ gen.stream[1] = ContentChunk(NoticeText)

C19_Witness ==
  /\ requests = 1
  /\ relay.calls = 1
  /\ relay.http = <<HttpConnectionError>>
  /\ relay.outcome = "fallback"

\* C20: call_n8n_router always returns a result; after a deadline overrun, a connection
\* failure, a non-success status or a malformed body the result is marked for fallback
\* and the history of every session is as it was before the call.
C20_FailureLeavesHistory ==
  [][IsDispatch =>
       /\ relay'.outcome \in {"success", "fallback"}
       /\ WorkflowCallFailed(relay'.http[1]) =>
            /\ relay'.outcome = "fallback"
            /\ \A i \in 1..Len(session_cache') :
                 session_cache'[i].conversation_history
                   = HistoryOf(session_cache, session_cache'[i].session_id)]_vars

C20_Witness ==
  /\ requests = 2
  /\ relay.calls = 1
  /\ relay.http[1].kind = "response"
  /\ relay.http[1].status = 500
  /\ relay.outcome = "fallback"
  /\ Len(HistoryOf(session_cache, relay.session_id[1])) = 1

\* C21: a workflow response with a 2xx status and a body that parses to a JSON object is
\* a success outcome; only a status outside 2xx or an unparseable body is a relay error.
C21_SuccessOnAny2xx ==
  (relay.calls = 1 /\ relay.http[1].kind = "response") =>
    LET http == relay.http[1]
        ok == http.status >= 200 /\ http.status <= 299 /\ http.parsed = "object"
    IN "fallback" \notin DOMAIN http.object => ((relay.outcome = "success") <=> ok)

\* the step is a request of a user whose session get_session_id selects
SelectStep(uid, sid) ==
  /\ IsDispatch
  /\ relay'.payload[1].user.id = uid
  /\ relay'.session_id[1] = sid

\* the sessions of a user that are not idle beyond the timeout
ActiveOf(cache, uid) ==
  {i \in 1..Len(cache) :
     cache[i].user_id = uid /\ now - cache[i].last_activity <= valves.session_timeout}

\* C22: the session get_session_id selects belongs to the user and was not idle beyond
\* the timeout when the call was made; without such a session a fresh one with a new id
\* and an empty history is created.
C22_SelectedSession ==
  [][\A uid \in UserIds \cup {"anonymous"} : \A n \in 1..(uuid_next + 1) :
       SelectStep(uid, Uuid(n)) =>
         LET sid == Uuid(n)
             i == CacheIndex(session_cache, sid)
             j == CacheIndex(session_cache', sid)
         IN /\ j # 0
            /\ session_cache'[j].user_id = uid
            /\ session_cache'[j].last_activity = now
            /\ i # 0 => i \in ActiveOf(session_cache, uid)
            /\ i = 0 <=> ActiveOf(session_cache, uid) = {}
            /\ i = 0 => /\ n = uuid_next + 1
                        /\ uuid_next' = uuid_next + 1
                        /\ session_cache'[j].created_at = now
                        /\ relay'.payload[1].conversation_history = <<>>]_vars

C22_Witness ==
  /\ requests = 2
  /\ relay.calls = 1
  /\ uuid_next = 2
  /\ Len(session_cache) = 1
  /\ session_cache[1].session_id = Uuid(2)
  /\ now > SessionTimeout

\* C23: a request that fails before its stream starts (in session resolution, dispatch or
\* the history update) yields exactly one error chunk and then the sentinel, without
\* content or finish chunk.
C23_FaultStream ==
  relay.outcome = "fault" =>
    /\ Len(gen.stream) = 2
    /\ gen.stream[1].kind = "error"
    /\ gen.stream[2] = Done
    /\ Count(gen.stream, "content") = 0
    /\ Count(gen.stream, "finish") = 0

C23_Witness ==
  /\ relay.outcome = "fault"
  /\ relay.calls = 0
  /\ gen.stream[Len(gen.stream)] = Done
  /\ requests = 1

\* the stream of a request with a success outcome: the diagnostic chunk at most once and
\* only in debug mode, a chunk for every word of the response, finish, the sentinel
C24_SuccessStep ==
  (requests' = requests + 1 /\ relay'.outcome = "success") =>
    LET stream == gen'.stream
        n == Len(stream)
        result == relay'.http[1].object
        response == Get(result, "response", Str(DefaultResponse))
        intent == Get(result, "intent", Str(<<"unknown">>))
        confidence == Get(result, "confidence", Num(0))
        words == IF response.t = "str" THEN Split(response.v) ELSE <<>>
        d == IF n >= 1 /\ stream[1] = ContentChunk(DiagnosticText(intent, confidence)) THEN 1 ELSE 0
    IN /\ d = 1 => valves.debug_mode
       /\ n = d + Len(words) + 2
       /\ \A i \in 1..Len(words) :
            /\ stream[d + i].kind = "content"
            /\ NonSpace(stream[d + i].text) = words[i]
       /\ stream[n - 1] = FinishChunk
       /\ stream[n] = Done

\* C24: on a success outcome the stream is at most one diagnostic chunk naming intent and
\* confidence (never when debug mode is off), then one content chunk per
\* whitespace-delimited word of the response in order, then finish, then the sentinel.
C24_SuccessStream == [][C24_SuccessStep]_vars

\* a step between two requests: the caller pulls an event or abandons the stream
C25_BetweenChunks ==
  requests' = requests =>
    /\ session_cache' = session_cache
    /\ uuid_next' = uuid_next
    /\ relay' = relay
    /\ gen.closed => gen' = gen

\* C25: once the first chunk was produced, pulling further chunks or abandoning the stream
\* changes neither the session cache (sessions, histories, last activity) nor the record of
\* outbound calls, so the cache after a cancellation is the cache after full consumption;
\* an abandoned stream emits nothing more.
C25_CancellationLeavesNothingPending == [][C25_BetweenChunks]_vars

C25_Witness ==
  /\ gen.closed
  /\ gen.pulled < Len(gen.stream)
  /\ relay.outcome = "success"
  /\ Len(session_cache) = 1
  /\ Len(session_cache[1].conversation_history) = 1

\* the turn rows the durable store holds for turn n of the session
TurnRowsOf(sid, n) ==
  {i \in 1..Len(conversation_turns) :
     /\ conversation_turns[i].turn_number = n
     /\ \E c \in RowsOf(conversations, sid) :
          conversation_turns[i].conversation_id = conversations[c].id}

\* a record that cleanup_sessions evicts has exactly one turn row for each of its turns
C26_EvictStep ==
  \A p \in Procs : \A sid \in DOMAIN sessions[p] :
    (IsCleanup(p) /\ sid \notin DOMAIN sessions'[p]) =>
      \A k \in 1..Len(sessions[p][sid].turns) :
        Cardinality(TurnRowsOf(sid, sessions[p][sid].turns[k].turn_number)) = 1

\* C26: the turns of a record are persisted completely and once: at the latest when the
\* record is evicted from the cache tiers, the durable store holds exactly one turn row
\* per (session id, turn number) of the record's turns.
C26_PersistComplete == [][C26_EvictStep]_vars

\* a request leaves every session other than its own, if not expired, in the cache as it was
C27_OtherSessionsStep ==
  requests' = requests + 1 =>
    \A i \in 1..Len(session_cache) :
      LET other == session_cache[i] IN
      (/\ now - other.last_activity <= valves.session_timeout
       /\ relay'.session_id # <<other.session_id>>) =>
        \E j \in 1..Len(session_cache') : session_cache'[j] = other

\* C27: handling a request for one user's session, whether it succeeds, falls back or
\* faults, leaves the record of every other non-expired session in the pipeline's cache
\* unchanged: same owner, history and last activity.
C27_OtherSessionsUnchanged == [][C27_OtherSessionsStep]_vars

C27_Witness ==
  /\ requests = 2
  /\ Len(session_cache) = 2
  /\ relay.outcome = "fallback"
  /\ relay.session_id = <<session_cache[2].session_id>>
  /\ Len(session_cache[1].conversation_history) = 1
  /\ now > session_cache[1].last_activity

\* cleanup_sessions keeps exactly the records idle for at most the timeout
C28_SweepStep ==
  \A p \in Procs : (IsCleanup(p) /\ requests' = requests) =>
    \A sid \in DOMAIN sessions[p] :
      (sid \in DOMAIN sessions'[p]) <=> (now - sessions[p][sid].last_activity <= SessionTimeout)

\* a request keeps exactly the sessions idle for at most the timeout
C28_PurgeStep ==
  (requests' = requests + 1 /\ relay'.calls = 1) =>
    \A i \in 1..Len(session_cache) :
      (\E j \in 1..Len(session_cache') : session_cache'[j].session_id = session_cache[i].session_id)
        <=> (now - session_cache[i].last_activity <= valves.session_timeout)

\* C28: expiry is strict: a session idle for exactly the timeout is kept by the purge of
\* get_session_id and by the sweep of cleanup_sessions; a session is evicted only when it
\* has been idle for longer than the timeout, and then it is.
C28_ExpiryStrict == [][C28_SweepStep /\ C28_PurgeStep]_vars

C28_Witness ==
  /\ now = SessionTimeout
  /\ ret.op = "cleanup"
  /\ "s1" \in DOMAIN sessions["p1"]
  /\ sessions["p1"]["s1"].last_activity = 0
  /\ requests = 2
  /\ uuid_next = 1
  /\ Len(session_cache) = 1
  /\ session_cache[1].created_at = 0
  /\ session_cache[1].last_activity = SessionTimeout

\* no two sessions of the cache belong to the same user
C29_OnePerUser ==
  \A i, j \in 1..Len(session_cache) :
    session_cache[i].user_id = session_cache[j].user_id => i = j

\* a user whose last call was at most the timeout ago gets the session of that call again
C29_ReuseStep ==
  IsDispatch =>
    \A i \in 1..Len(session_cache) :
      (/\ session_cache[i].user_id = relay'.payload[1].user.id
       /\ now - session_cache[i].last_activity <= valves.session_timeout) =>
        /\ relay'.session_id[1] = session_cache[i].session_id
        /\ uuid_next' = uuid_next

\* C29: after any sequence of get_session_id calls by any users the pipeline's session
\* cache holds at most one session per user id, and a call by a user whose previous call
\* was within the timeout returns the same session id.
C29_OneSessionPerUser == []C29_OnePerUser /\ [][C29_ReuseStep]_vars

C29_Witness ==
  /\ requests = 2
  /\ relay.calls = 1
  /\ uuid_next = 1
  /\ Len(session_cache) = 1
  /\ relay.session_id = <<Uuid(1)>>
  /\ session_cache[1].created_at = 0
  /\ session_cache[1].last_activity = SessionTimeout

\* the step is an add_turn(sid, ...) of process p
IsAppend(p, sid) ==
  /\ ret'.op = "add_turn" /\ ret'.proc = p /\ ret'.session_id = sid
  /\ now' = now /\ tasks' = tasks /\ redis_conn' = redis_conn /\ requests' = requests

\* C30: add_turn for a session id that is not in the process-local map, because it was
\* never resolved or was reaped since, changes nothing: no record is created, no turn is
\* stored, the network cache and the durable store are not written, and the call returns
\* without an error.
C30_MissingSessionNoOp ==
  [][\A p \in Procs : \A sid \in SessionIds :
       (IsAppend(p, sid) /\ sid \notin DOMAIN sessions[p]) =>
         /\ sessions' = sessions
         /\ appended' = appended
         /\ redis' = redis
         /\ conversations' = conversations
         /\ conversation_turns' = conversation_turns
         /\ ret'.tier = "none"
         /\ ret'.value = <<>>]_vars

C30_Witness ==
  /\ ret.op = "add_turn"
  /\ ret.tier = "none"
  /\ ret.session_id = "s1"
  /\ "s1" \notin DOMAIN sessions["p1"]
  /\ RowsOf(conversations, "s1") # {}
  /\ Len(Get(appended["p1"], "s1", <<>>)) = 1
  /\ now > SessionTimeout

\* C35: the owning user id of a session never changes after creation: whichever user id a
\* caller passes to get_or_create_session, the record returned for a session id carries
\* the user id the session was created with, also after the record was reaped and
\* resolved again.
C35_OwnerNeverChanges ==
  [][\A p \in Procs : \A sid \in SessionIds :
       (IsResolve(p, sid) /\ requests' = requests /\ RowsOf(conversations, sid) # {}) =>
         \A i \in RowsOf(conversations, sid) :
           ret'.value[1].user_id = conversations[i].user_id]_vars

\* the stream opens with the degraded-mode notice
OpensWithNotice(stream) == stream # <<>> /\ stream[1] = ContentChunk(NoticeText)

\* a request that is answered with the fallback stream adds no turn to the session's
\* history, and a request that adds a turn is not answered with the notice
C39_TurnStep ==
  IsDispatch =>
    LET sid == relay'.session_id[1]
        added == Len(HistoryOf(session_cache', sid)) > Len(HistoryOf(session_cache, sid))
    IN ~(added /\ OpensWithNotice(gen'.stream))

\* C39: in the pipeline a turn is added to the session history for a request only if the
\* stream delivered for it is the success stream: a request answered with the fallback
\* stream adds no turn, and a request that adds a turn is never answered with the
\* degraded-mode notice.
C39_TurnOnlyWithSuccessStream == [][C39_TurnStep]_vars

\* C38: while the network cache is connected, a session of the process-local map that has
\* been idle for less than the timeout and was written to the network cache still has a
\* live entry there (its TTL has not elapsed), also when it was kept active only by
\* process-local hits.
C38_LiveWhileActive ==
  \A p \in Procs : \A sid \in DOMAIN sessions[p] :
    (/\ redis_conn[p]
     /\ now - sessions[p][sid].last_activity < SessionTimeout
     /\ RedisKey(sid) \in DOMAIN redis) =>
      now < redis[RedisKey(sid)].expires_at

\* the record and the JSON object agree on identity, turns and both times
SameAsWritten(session, cached) ==
  /\ session.session_id = Member(cached, "session_id")
  /\ session.user_id = Member(cached, "user_id")
  /\ session.turns = Member(cached, "turns")
  /\ session.created_at = Member(cached, "created_at")
  /\ session.last_activity = Member(cached, "last_activity")

\* a step that writes the network-cache entry of a session writes the record its process
\* holds for the session
C37_WriteStep ==
  \A sid \in SessionIds :
    LET key == RedisKey(sid) IN
    (/\ key \in DOMAIN redis'
     /\ key \in DOMAIN redis => redis'[key] # redis[key]) =>
      /\ sid \in DOMAIN sessions'[ret'.proc]
      /\ SameAsWritten(sessions'[ret'.proc][sid], redis'[key].value)

\* a lookup answered by the network cache returns and installs the record that was written
C37_ReadStep ==
  \A p \in Procs : \A sid \in SessionIds :
    (IsResolve(p, sid) /\ ret'.tier = "redis") =>
      /\ SameAsWritten(ret'.value[1], redis[RedisKey(sid)].value)
      /\ sessions'[p][sid] = ret'.value[1]

C33_OneRowPerSession ==
  \A sid \in SessionIds : Cardinality(RowsOf(conversations, sid)) <= 1

\* two lookups for the unknown session were suspended at once; the one that resumed first
\* inserted the row, the other found it
C33_Witness ==
  /\ \E t \in TaskIds :
       /\ tasks[t].op = "resolve" /\ tasks[t].pc \in {"setex", "reply"}
       /\ tasks[t].session_id = "s1" /\ tasks[t].value[2] = "new"
  /\ \E t \in TaskIds :
       /\ tasks[t].op = "resolve" /\ tasks[t].pc \in {"setex", "reply"}
       /\ tasks[t].session_id = "s1" /\ tasks[t].value[2] = "supabase"
  /\ Cardinality(RowsOf(conversations, "s1")) = 1

\* the step in which a get_or_create_session coroutine resumes from its network-cache
\* read, taken when no add_turn is under way, keeps the turns of the record that the
\* process-local map holds for the session
C34_ResolveStep ==
  \A t \in TaskIds :
    LET p == tasks[t].proc
        sid == tasks[t].session_id
    IN (/\ tasks[t].op = "resolve" /\ tasks[t].pc = "got"
        /\ tasks'[t] # tasks[t]
        /\ \A x \in TaskIds : tasks[x].op # "add_turn"
        /\ sid \in DOMAIN sessions[p]
        /\ sessions[p][sid].turns # <<>>) =>
         /\ sid \in DOMAIN sessions'[p]
         /\ sessions'[p][sid].turns = sessions[p][sid].turns

\* C34: a get_or_create_session that was suspended on its network-cache read never
\* replaces an entry of the process-local map that was installed, and had a turn appended,
\* in the meantime: once add_turn has completed for a session, no interleaved lookup for
\* the session leaves the map or the network cache holding a record without that turn.
C34_ResolveKeepsTurns == [][C34_ResolveStep]_vars

\* C31: the sweep never removes a session that is active at the moment of removal: a
\* session is deleted from the process-local map only when it has been idle for longer
\* than the timeout at that moment, also when a lookup refreshed it while the sweep was
\* suspended on a network-cache delete.
C31_RemovedOnlyWhenExpired ==
  [][\A p \in Procs : \A sid \in DOMAIN sessions[p] :
       sid \notin DOMAIN sessions'[p] => now - sessions[p][sid].last_activity > SessionTimeout]_vars

\* C32: two sweeps interleaved at their awaits over the same expired sessions both run to
\* completion without raising.
C32_SweepsDoNotRaise == ret.op = "cleanup" => ret.tier # "KeyError"

====
